---- MODULE Spec2Model ----
(***************************************************************************)
(* A model of the stack virtual machine of src/svm/stack_vm.cpp: the       *)
(* bounded operand stack (class Stack), the sparse memory (class Memory)   *)
(* and the execution engine (class ExecutionEngine) with its               *)
(* fetch-dispatch loop.  One step of the model is one call of load_program,*)
(* the entry of run(), one iteration of run()'s loop (execute + pc++), or  *)
(* run()'s return.                                                         *)
(***************************************************************************)
EXTENDS Integers, Sequences, FiniteSets, TLC

\* ------------------------------------------------------------------------
\* Program constants
\* ------------------------------------------------------------------------

\* Stack::MAX_SIZE
MAX_SIZE == 1024

\* Memory::MAX_ADDRESS
MAX_ADDRESS == 65535

\* The largest and smallest value of the machine's int (32 bits).
INT_MAX == 2147483647

INT_MIN == (-INT_MAX) - 1

\* ------------------------------------------------------------------------
\* Bounds of the model
\* ------------------------------------------------------------------------

\* load_program is called at most MaxLoads times in a behaviour.
MaxLoads == 2

\* The number of times run() is called between two load_program calls.
MaxRuns == 2

\* ------------------------------------------------------------------------
\* Machine integers.  Signed overflow and INT_MIN / -1 are undefined in
\* C++: an operation on such operands either traps or yields the
\* two's-complement (wrapped) result.  A result is a record
\* [trap, value].
\* ------------------------------------------------------------------------

Value(v) ==
    [trap |-> FALSE, value |-> v]

Trapped ==
    [trap |-> TRUE, value |-> 0]

AddOverflows(a, b) ==
    \/ b > 0 /\ a > INT_MAX - b
    \/ b < 0 /\ a < INT_MIN - b

\* a + b reduced modulo 2^32 into [INT_MIN, INT_MAX]
AddWrap(a, b) ==
    IF ~AddOverflows(a, b) THEN a + b
    ELSE IF b > 0 THEN ((a - INT_MAX) - 1) + ((b - INT_MAX) - 1)
    ELSE ((a + INT_MAX) + 1) + ((b + INT_MAX) + 1)

\* -a reduced modulo 2^32
NegWrap(a) ==
    IF a = INT_MIN THEN INT_MIN ELSE -a

SubOverflows(a, b) ==
    \/ b = INT_MIN /\ a >= 0
    \/ b # INT_MIN /\ AddOverflows(a, -b)

\* a - b reduced modulo 2^32
SubWrap(a, b) ==
    IF b = INT_MIN THEN AddWrap(AddWrap(a, INT_MAX), 1) ELSE AddWrap(a, -b)

\* the low and the high 16 bits of the two's-complement form of a
Lo16(a) ==
    a % 65536

Hi16(a) ==
    (a \div 65536) % 65536

\* x * y modulo 2^16, for x, y in 0..65535
MulLow16(x, y) ==
    (((x % 256) * y) + ((((x \div 256) * y) % 256) * 256)) % 65536

\* a * b reduced modulo 2^32 into [INT_MIN, INT_MAX], by 16-bit limbs
MulWrap(a, b) ==
    LET t   == (Lo16(a) \div 256) * Lo16(b)
        low == ((Lo16(a) % 256) * Lo16(b)) + ((t % 256) * 256)
        rlo == low % 65536
        rhi == ((low \div 65536) + ((t \div 256) % 65536)
                  + MulLow16(Hi16(a), Lo16(b)) + MulLow16(Lo16(a), Hi16(b))) % 65536
    IN  IF rhi >= 32768 THEN ((rhi - 65536) * 65536) + rlo ELSE (rhi * 65536) + rlo

MulOverflows(a, b) ==
    /\ a # 0
    /\ b # 0
    /\ \/ a = -1 /\ b = INT_MIN
       \/ a # -1 /\ (MulWrap(a, b) \div a) # b

\* int operator+
IntAdd(a, b) ==
    IF AddOverflows(a, b) THEN {Trapped, Value(AddWrap(a, b))} ELSE {Value(a + b)}

\* int operator-
IntSub(a, b) ==
    IF SubOverflows(a, b) THEN {Trapped, Value(SubWrap(a, b))} ELSE {Value(a - b)}

\* int operator*
IntMul(a, b) ==
    IF MulOverflows(a, b) THEN {Trapped, Value(MulWrap(a, b))} ELSE {Value(a * b)}

\* whether b divides a exactly (b # 0)
Divides(b, a) ==
    IF b = INT_MIN THEN a = 0 \/ a = INT_MIN
    ELSE IF b < 0 THEN a % (-b) = 0
    ELSE a % b = 0

\* the quotient a / b of C++, truncated toward zero (b # 0, no overflow)
TruncDiv(a, b) ==
    LET q == a \div b
    IN  IF ((a < 0) # (b < 0)) /\ ~Divides(b, a) THEN q + 1 ELSE q

\* the remainder a % b of C++, whose sign follows the dividend (b # 0, no overflow)
TruncRem(a, b) ==
    IF b = INT_MIN THEN (IF a = INT_MIN THEN 0 ELSE a)
    ELSE LET n == IF b < 0 THEN -b ELSE b
             m == a % n
         IN  IF a < 0 /\ m # 0 THEN m - n ELSE m

\* int operator/ with a non-zero divisor
IntDiv(a, b) ==
    IF a = INT_MIN /\ b = -1 THEN {Trapped, Value(INT_MIN)} ELSE {Value(TruncDiv(a, b))}

\* int operator% with a non-zero divisor
IntMod(a, b) ==
    IF a = INT_MIN /\ b = -1 THEN {Trapped, Value(0)} ELSE {Value(TruncRem(a, b))}

\* ------------------------------------------------------------------------
\* class Stack.  A stack is a sequence whose last element is the top.  A
\* method that may throw yields a record [what, stack, value]: what is the
\* message of the runtime_error thrown, or NoError.
\* ------------------------------------------------------------------------

NoError == "none"

\* Stack::push with its capacity test off by one (> for >=)
Stack_push_OffByOne(s, value) ==
    IF Len(s) > MAX_SIZE
    THEN [what |-> "Stack Overflow", stack |-> s, value |-> 0]
    ELSE [what |-> NoError, stack |-> Append(s, value), value |-> 0]

\* Stack::push
Stack_push(s, value) ==
    IF Len(s) >= MAX_SIZE
    THEN [what |-> "Stack Overflow", stack |-> s, value |-> 0]
    ELSE [what |-> NoError, stack |-> Append(s, value), value |-> 0]

\* Stack::pop
Stack_pop(s) ==
    IF s = <<>>
    THEN [what |-> "Stack Underflow", stack |-> s, value |-> 0]
    ELSE [what |-> NoError, stack |-> SubSeq(s, 1, Len(s) - 1), value |-> s[Len(s)]]

\* Stack::peek
Stack_peek(s) ==
    IF s = <<>>
    THEN [what |-> "Stack is empty", stack |-> s, value |-> 0]
    ELSE [what |-> NoError, stack |-> s, value |-> s[Len(s)]]

\* Stack::dup without its own test for an empty stack
Stack_dup_Unchecked(s) ==
    LET top == Stack_peek(s)
    IN  IF top.what # NoError THEN top ELSE Stack_push(s, top.value)

\* Stack::dup
Stack_dup(s) ==
    IF s = <<>>
    THEN [what |-> "Stack Underflow", stack |-> s, value |-> 0]
    ELSE LET top == Stack_peek(s)
         IN  IF top.what # NoError THEN top ELSE Stack_push(s, top.value)

\* a swap that leaves the two values where they are
Stack_swap_Keeps(s) ==
    IF Len(s) < 2 THEN [what |-> "Stack Underflow", stack |-> s, value |-> 0]
    ELSE [what |-> NoError, stack |-> s, value |-> 0]

\* Stack::swap
Stack_swap(s) ==
    IF Len(s) < 2
    THEN [what |-> "Stack Underflow", stack |-> s, value |-> 0]
    ELSE LET a  == Stack_pop(s)
             b  == Stack_pop(a.stack)
             pa == Stack_push(b.stack, a.value)
         IN  IF a.what # NoError THEN a
             ELSE IF b.what # NoError THEN b
             ELSE IF pa.what # NoError THEN pa
             ELSE Stack_push(pa.stack, b.value)

\* Stack::empty
Stack_empty(s) ==
    s = <<>>

\* Stack::size
Stack_size(s) ==
    Len(s)

\* ------------------------------------------------------------------------
\* class Memory.  A memory is a function from the addresses written so far
\* (the keys of the unordered_map) to their values.
\* ------------------------------------------------------------------------

EmptyMemory ==
    [a \in {} |-> 0]

\* Memory::store dropping every other cell
Memory_store_Clobbers(m, address, value) ==
    IF address < 0 \/ address > MAX_ADDRESS
    THEN [what |-> "Memory address out of bounds", memory |-> m]
    ELSE [what |-> NoError, memory |-> [a \in {address} |-> value]]

\* Memory::store without the test for a negative address
Memory_store_NoLowerBound(m, address, value) ==
    IF address > MAX_ADDRESS
    THEN [what |-> "Memory address out of bounds", memory |-> m]
    ELSE [what |-> NoError,
          memory |-> [a \in (DOMAIN m) \cup {address} |-> IF a = address THEN value ELSE m[a]]]

\* Memory::store: [what, memory]
Memory_store(m, address, value) ==
    IF address < 0 \/ address > MAX_ADDRESS
    THEN [what |-> "Memory address out of bounds", memory |-> m]
    ELSE [what |-> NoError,
          memory |-> [a \in (DOMAIN m) \cup {address} |-> IF a = address THEN value ELSE m[a]]]

\* Memory::load: [what, value]
Memory_load(m, address) ==
    IF address < 0 \/ address > MAX_ADDRESS
    THEN [what |-> "Memory address out of bounds", value |-> 0]
    ELSE IF address \notin DOMAIN m
    THEN [what |-> NoError, value |-> 0]
    ELSE [what |-> NoError, value |-> m[address]]

\* ------------------------------------------------------------------------
\* struct Instruction and the switch of ExecutionEngine::execute.  The
\* effect of one case on (stack, memory) is a set of outcomes
\* [stack, memory, printed, halt, what, trap, operand]: printed is what the
\* case wrote to cout, halt whether it cleared running, what the message of
\* the runtime_error it threw (NoError if none), trap whether the process
\* died on undefined behaviour, operand the value the case read as
\* instr.operands[0] (0 if it read none).
\* ------------------------------------------------------------------------

Instruction(op, ops) ==
    [opcode |-> op, operands |-> ops]

Done(s, m) ==
    [stack |-> s, memory |-> m, printed |-> <<>>, halt |-> FALSE, what |-> NoError,
     trap |-> FALSE, operand |-> 0]

Thrown(what, s, m) ==
    [stack |-> s, memory |-> m, printed |-> <<>>, halt |-> FALSE, what |-> what,
     trap |-> FALSE, operand |-> 0]

Crashed(s, m) ==
    [stack |-> s, memory |-> m, printed |-> <<>>, halt |-> FALSE, what |-> NoError,
     trap |-> TRUE, operand |-> 0]

\* What a read past the end of an empty operand vector can yield, when it
\* does not fault.
GarbageValues ==
    {0, -1}

\* instr.operands[0]: unchecked, so undefined when there is no operand
Operand0(instr) ==
    IF Len(instr.operands) > 0
    THEN {Value(instr.operands[1])}
    ELSE {Trapped} \cup {Value(g) : g \in GarbageValues}

\* stack.push(v) as the last statement of a case
PushResult(s, v, m) ==
    LET r == Stack_push(s, v)
    IN  IF r.what # NoError THEN Thrown(r.what, r.stack, m) ELSE Done(r.stack, m)

\* an outcome of a case that read o as instr.operands[0]
WithOperand(outcome, o) ==
    [outcome EXCEPT !.operand = o.value]

\* case PUSH
Exec_PUSH(instr, s, m) ==
    {IF o.trap THEN Crashed(s, m) ELSE WithOperand(PushResult(s, o.value, m), o) :
        o \in Operand0(instr)}

\* case POP
Exec_POP(s, m) ==
    LET r == Stack_pop(s)
    IN  {IF r.what # NoError THEN Thrown(r.what, r.stack, m) ELSE Done(r.stack, m)}

\* the two pops, the first undone when the second fails
PopTwo_RollsBack(s) ==
    LET b == Stack_pop(s)
        a == Stack_pop(b.stack)
    IN  IF b.what # NoError THEN [what |-> b.what, stack |-> b.stack, a |-> 0, b |-> 0]
        ELSE IF a.what # NoError THEN [what |-> a.what, stack |-> s, a |-> 0, b |-> 0]
        ELSE [what |-> a.what, stack |-> a.stack, a |-> a.value, b |-> b.value]

\* b = stack.pop(); a = stack.pop(): [what, stack, a, b]
PopTwo(s) ==
    LET b == Stack_pop(s)
        a == Stack_pop(b.stack)
    IN  IF b.what # NoError THEN [what |-> b.what, stack |-> b.stack, a |-> 0, b |-> 0]
        ELSE [what |-> a.what, stack |-> a.stack, a |-> a.value, b |-> b.value]

\* stack.push(a op b), for each result the operation a op b can have
PushEach(s, m, results) ==
    {IF r.trap THEN Crashed(s, m) ELSE PushResult(s, r.value, m) : r \in results}

\* case ADD
Exec_ADD(s, m) ==
    LET p == PopTwo(s)
    IN  IF p.what # NoError THEN {Thrown(p.what, p.stack, m)}
        ELSE PushEach(p.stack, m, IntAdd(p.a, p.b))

\* case SUB taking the most recent push as its left operand
Exec_SUB_Reversed(s, m) ==
    LET p == PopTwo(s)
    IN  IF p.what # NoError THEN {Thrown(p.what, p.stack, m)}
        ELSE PushEach(p.stack, m, IntSub(p.b, p.a))

\* case SUB
Exec_SUB(s, m) ==
    LET p == PopTwo(s)
    IN  IF p.what # NoError THEN {Thrown(p.what, p.stack, m)}
        ELSE PushEach(p.stack, m, IntSub(p.a, p.b))

\* case MUL
Exec_MUL(s, m) ==
    LET p == PopTwo(s)
    IN  IF p.what # NoError THEN {Thrown(p.what, p.stack, m)}
        ELSE PushEach(p.stack, m, IntMul(p.a, p.b))

\* case DIV popping both operands before it tests the divisor
Exec_DIV_PopsBoth(s, m) ==
    LET p == PopTwo(s)
    IN  IF p.what # NoError THEN {Thrown(p.what, p.stack, m)}
        ELSE IF p.b = 0 THEN {Thrown("Division by zero", p.stack, m)}
        ELSE PushEach(p.stack, m, IntDiv(p.a, p.b))

\* case DIV
Exec_DIV(s, m) ==
    LET b == Stack_pop(s)
        a == Stack_pop(b.stack)
    IN  IF b.what # NoError THEN {Thrown(b.what, b.stack, m)}
        ELSE IF b.value = 0 THEN {Thrown("Division by zero", b.stack, m)}
        ELSE IF a.what # NoError THEN {Thrown(a.what, a.stack, m)}
        ELSE PushEach(a.stack, m, IntDiv(a.value, b.value))

\* case MOD
Exec_MOD(s, m) ==
    LET b == Stack_pop(s)
        a == Stack_pop(b.stack)
    IN  IF b.what # NoError THEN {Thrown(b.what, b.stack, m)}
        ELSE IF b.value = 0 THEN {Thrown("Modulo by zero", b.stack, m)}
        ELSE IF a.what # NoError THEN {Thrown(a.what, a.stack, m)}
        ELSE PushEach(a.stack, m, IntMod(a.value, b.value))

\* case LOAD: stack.push(memory.load(instr.operands[0]))
Exec_LOAD(instr, s, m) ==
    {IF o.trap THEN Crashed(s, m)
     ELSE LET r == Memory_load(m, o.value)
          IN  WithOperand(IF r.what # NoError THEN Thrown(r.what, s, m)
                          ELSE PushResult(s, r.value, m), o) :
        o \in Operand0(instr)}

\* case STORE validating the address before it pops the value
Exec_STORE_ChecksFirst(instr, s, m) ==
    {IF o.trap THEN Crashed(s, m)
     ELSE LET v == Stack_pop(s)
              r == Memory_store(m, o.value, v.value)
          IN  WithOperand(IF r.what # NoError THEN Thrown(r.what, s, m)
                          ELSE IF v.what # NoError THEN Thrown(v.what, v.stack, m)
                          ELSE Done(v.stack, r.memory), o) :
        o \in Operand0(instr)}

\* case STORE: memory.store(instr.operands[0], stack.pop()); both arguments
\* are evaluated before store is entered
Exec_STORE(instr, s, m) ==
    {IF o.trap THEN Crashed(s, m)
     ELSE LET v == Stack_pop(s)
              r == Memory_store(m, o.value, v.value)
          IN  WithOperand(IF v.what # NoError THEN Thrown(v.what, v.stack, m)
                          ELSE IF r.what # NoError THEN Thrown(r.what, v.stack, m)
                          ELSE Done(v.stack, r.memory), o) :
        o \in Operand0(instr)}

\* case DUP
Exec_DUP(s, m) ==
    LET r == Stack_dup(s)
    IN  {IF r.what # NoError THEN Thrown(r.what, r.stack, m) ELSE Done(r.stack, m)}

\* case SWAP
Exec_SWAP(s, m) ==
    LET r == Stack_swap(s)
    IN  {IF r.what # NoError THEN Thrown(r.what, r.stack, m) ELSE Done(r.stack, m)}

\* the comparison with its two results exchanged
Compare_Swapped(a, b) ==
    {Value(IF a < b THEN 1 ELSE IF a > b THEN -1 ELSE 0)}

\* (a < b) ? -1 : (a > b) ? 1 : 0
Compare(a, b) ==
    {Value(IF a < b THEN -1 ELSE IF a > b THEN 1 ELSE 0)}

\* case CMP
Exec_CMP(s, m) ==
    LET p == PopTwo(s)
    IN  IF p.what # NoError THEN {Thrown(p.what, p.stack, m)}
        ELSE PushEach(p.stack, m, Compare(p.a, p.b))

\* case PRINT writing the top value without popping it
Exec_PRINT_Peeks(s, m) ==
    LET r == Stack_peek(s)
    IN  {IF r.what # NoError THEN Thrown(r.what, r.stack, m)
         ELSE [Done(r.stack, m) EXCEPT !.printed = <<r.value>>]}

\* case PRINT: cout << stack.pop() << endl
Exec_PRINT(s, m) ==
    LET r == Stack_pop(s)
    IN  {IF r.what # NoError THEN Thrown(r.what, r.stack, m)
         ELSE [Done(r.stack, m) EXCEPT !.printed = <<r.value>>]}

\* case HALT
Exec_HALT(s, m) ==
    {[Done(s, m) EXCEPT !.halt = TRUE]}

\* a default that ignores the opcode it does not know
Exec_default_Ignores(s, m) ==
    {Done(s, m)}

\* default (JMP, JZ, JNZ, CALL and RET are commented out of the switch)
Exec_default(s, m) ==
    {Thrown("Unknown instruction", s, m)}

\* switch (instr.opcode)
Dispatch(instr, s, m) ==
    CASE instr.opcode = "PUSH"  -> Exec_PUSH(instr, s, m)
      [] instr.opcode = "POP"   -> Exec_POP(s, m)
      [] instr.opcode = "ADD"   -> Exec_ADD(s, m)
      [] instr.opcode = "SUB"   -> Exec_SUB(s, m)
      [] instr.opcode = "MUL"   -> Exec_MUL(s, m)
      [] instr.opcode = "DIV"   -> Exec_DIV(s, m)
      [] instr.opcode = "MOD"   -> Exec_MOD(s, m)
      [] instr.opcode = "LOAD"  -> Exec_LOAD(instr, s, m)
      [] instr.opcode = "STORE" -> Exec_STORE(instr, s, m)
      [] instr.opcode = "DUP"   -> Exec_DUP(s, m)
      [] instr.opcode = "SWAP"  -> Exec_SWAP(s, m)
      [] instr.opcode = "CMP"   -> Exec_CMP(s, m)
      [] instr.opcode = "PRINT" -> Exec_PRINT(s, m)
      [] instr.opcode = "HALT"  -> Exec_HALT(s, m)
      [] OTHER                  -> Exec_default(s, m)

\* ------------------------------------------------------------------------
\* Programs the engine is given.
\* ------------------------------------------------------------------------

PushValues ==
    {0, 7, -1, INT_MIN}

Addresses ==
    {0, MAX_ADDRESS, -1, MAX_ADDRESS + 1}

NoOperandOps ==
    {"POP", "ADD", "SUB", "MUL", "DIV", "MOD", "DUP", "SWAP", "CMP", "PRINT", "HALT", "RET"}

\* The instructions programs are made of, each with the operands of its
\* opcode.
Instrs ==
    {Instruction("PUSH", <<v>>) : v \in PushValues}
      \cup {Instruction(op, <<a>>) : op \in {"LOAD", "STORE"}, a \in Addresses}
      \cup {Instruction(op, <<0>>) : op \in {"JMP", "JZ", "JNZ", "CALL"}}
      \cup {Instruction(op, <<>>) : op \in NoOperandOps}

\* PUSH, LOAD and STORE built without their operand (the constructor's
\* default)
MalformedInstrs ==
    {Instruction(op, <<>>) : op \in {"PUSH", "LOAD", "STORE"}}

WellFormed(instr) ==
    instr.opcode \in {"PUSH", "LOAD", "STORE"} => Len(instr.operands) > 0

\* the program of main
MainProgram ==
    << Instruction("PUSH", <<5>>), Instruction("STORE", <<0>>),
       Instruction("PUSH", <<10>>), Instruction("STORE", <<1>>),
       Instruction("LOAD", <<0>>), Instruction("LOAD", <<1>>),
       Instruction("ADD", <<>>), Instruction("PRINT", <<>>), Instruction("HALT", <<>>) >>

\* MAX_SIZE + 1 pushes, of the values 1, 2, ...
FillProgram ==
    [i \in 1..(MAX_SIZE + 1) |-> Instruction("PUSH", <<i>>)]

DivByZeroProgram ==
    << Instruction("PUSH", <<7>>), Instruction("PUSH", <<0>>), Instruction("DIV", <<>>) >>

ModByZeroProgram ==
    << Instruction("PUSH", <<7>>), Instruction("PUSH", <<0>>), Instruction("MOD", <<>>) >>

StoreLoadProgram ==
    << Instruction("PUSH", <<9>>), Instruction("STORE", <<42>>), Instruction("LOAD", <<42>>) >>

\* a store to one address, a store to another, and a load of the first
TwoStoresProgram ==
    << Instruction("PUSH", <<7>>), Instruction("STORE", <<0>>),
       Instruction("PUSH", <<-1>>), Instruction("STORE", <<MAX_ADDRESS>>),
       Instruction("LOAD", <<0>>) >>

\* a HALT before the end of the program
HaltEarlyProgram ==
    << Instruction("PUSH", <<7>>), Instruction("HALT", <<>>), Instruction("PUSH", <<0>>) >>

\* an instruction that fails on a stack of fewer than two values, before
\* the end of the program
ErrorEarlyProgram ==
    << Instruction("SWAP", <<>>), Instruction("PUSH", <<7>>) >>

\* a control-transfer opcode after a push and before another
JumpProgram ==
    << Instruction("PUSH", <<7>>), Instruction("JMP", <<0>>), Instruction("PUSH", <<0>>) >>

\* a binary operation dispatched on a single value
OneOperandProgram ==
    << Instruction("PUSH", <<7>>), Instruction("ADD", <<>>) >>

\* a division and a remainder whose exact quotient is not an integer and
\* whose dividend is negative
DivTruncProgram ==
    << Instruction("PUSH", <<-7>>), Instruction("PUSH", <<2>>), Instruction("DIV", <<>>) >>

ModSignProgram ==
    << Instruction("PUSH", <<-7>>), Instruction("PUSH", <<2>>), Instruction("MOD", <<>>) >>

\* 3 pushed first, 5 pushed second, compared
CmpProgram ==
    << Instruction("PUSH", <<3>>), Instruction("PUSH", <<5>>), Instruction("CMP", <<>>) >>

\* two values and two SWAPs
SwapTwiceProgram ==
    << Instruction("PUSH", <<0>>), Instruction("PUSH", <<7>>),
       Instruction("SWAP", <<>>), Instruction("SWAP", <<>>) >>

\* two SWAPs, for a stack that already holds values
SwapsProgram ==
    << Instruction("SWAP", <<>>), Instruction("SWAP", <<>>) >>

\* The programs given to load_program: the empty program, every single
\* instruction, every two pushes, and the programs above.  Longer runs
\* arise from loading one program after another, as the stack and the
\* memory outlive a load.
Programs ==
    {<<>>} \cup {<<i>> : i \in Instrs}
      \cup {<<Instruction("PUSH", <<a>>), Instruction("PUSH", <<b>>)>> : a, b \in PushValues}
      \cup {MainProgram, DivByZeroProgram, ModByZeroProgram, StoreLoadProgram,
            TwoStoresProgram, HaltEarlyProgram, ErrorEarlyProgram, JumpProgram,
            OneOperandProgram, DivTruncProgram, ModSignProgram, CmpProgram,
            SwapTwiceProgram}

\* The instructions run next to FillProgram, on a stack at or near its
\* capacity.
CapInstrs ==
    {Instruction("PUSH", <<v>>) : v \in {0, 7}} \cup {Instruction("PUSH", <<>>)}
      \cup {Instruction(op, <<0>>) : op \in {"LOAD", "STORE"}}
      \cup {Instruction(op, <<>>) : op \in {"POP", "ADD", "DIV", "DUP", "SWAP", "CMP", "PRINT", "HALT"}}

CapPrograms ==
    {FillProgram, SwapTwiceProgram, SwapsProgram} \cup {<<i>> : i \in CapInstrs}

\* Programs, and the programs of one malformed instruction
AnyPrograms ==
    Programs \cup {<<i>> : i \in MalformedInstrs}

\* ------------------------------------------------------------------------
\* class ExecutionEngine
\* ------------------------------------------------------------------------

VARIABLES
    program,     \* vector<Instruction> program
    stack,       \* Stack stack
    memory,      \* Memory memory
    call_stack,  \* Stack call_stack
    pc,          \* size_t pc
    running,     \* bool running
    cout,        \* the values written to standard output
    cerr,        \* the diagnostics written to standard error: [pc, what]
    mode,        \* "idle": no call in progress; "run": inside run(); "crashed"
    loads,       \* the number of load_program calls so far
    dispatched,  \* the number of instructions dispatched since the last load
    lastStored,  \* per address, the value of the latest STORE that raised no error
    runs         \* the number of run() calls since the last load

vars ==
    <<program, stack, memory, call_stack, pc, running, cout, cerr, mode, loads, dispatched,
      lastStored, runs>>

Init ==
    /\ program = <<>>
    /\ stack = <<>>
    /\ memory = EmptyMemory
    /\ call_stack = <<>>
    /\ pc = 0
    /\ running = TRUE
    /\ cout = <<>>
    /\ cerr = <<>>
    /\ mode = "idle"
    /\ loads = 0
    /\ dispatched = 0
    /\ lastStored = [a \in {} |-> 0]
    /\ runs = 0

\* execute whose catch reports the error but leaves running set
execute_KeepsRunning(instr, s, m, run, counter) ==
    {[stack   |-> o.stack,
      memory  |-> o.memory,
      printed |-> o.printed,
      running |-> IF o.halt THEN FALSE ELSE run,
      diag    |-> IF o.what # NoError THEN <<[pc |-> counter, what |-> o.what]>> ELSE <<>>,
      trap    |-> o.trap,
      operand |-> o.operand] : o \in Dispatch(instr, s, m)}

\* ExecutionEngine::execute: the switch inside try, and the catch, which
\* reports pc and the message and clears running.  A result is
\* [stack, memory, printed, running, diag, trap, operand].
execute(instr, s, m, run, counter) ==
    {[stack   |-> o.stack,
      memory  |-> o.memory,
      printed |-> o.printed,
      running |-> IF o.what # NoError \/ o.halt THEN FALSE ELSE run,
      diag    |-> IF o.what # NoError THEN <<[pc |-> counter, what |-> o.what]>> ELSE <<>>,
      trap    |-> o.trap,
      operand |-> o.operand] : o \in Dispatch(instr, s, m)}

\* load_program resetting the memory as well
load_program_ClearsMemory(bytecode) ==
    /\ mode = "idle"
    /\ loads < MaxLoads
    /\ program' = bytecode
    /\ pc' = 0
    /\ running' = TRUE
    /\ call_stack' = <<>>
    /\ memory' = EmptyMemory
    /\ loads' = loads + 1
    /\ dispatched' = 0
    /\ runs' = 0
    /\ UNCHANGED <<stack, cout, cerr, mode, lastStored>>

\* ExecutionEngine::load_program (VirtualMachine::load_program forwards to it)
load_program(bytecode) ==
    /\ mode = "idle"
    /\ loads < MaxLoads
    /\ program' = bytecode
    /\ pc' = 0
    /\ running' = TRUE
    /\ call_stack' = <<>>
    /\ loads' = loads + 1
    /\ dispatched' = 0
    /\ runs' = 0
    /\ UNCHANGED <<stack, memory, cout, cerr, mode, lastStored>>

\* ExecutionEngine::run is entered
run_call ==
    /\ mode = "idle"
    /\ runs < MaxRuns
    /\ mode' = "run"
    /\ runs' = runs + 1
    /\ UNCHANGED <<program, stack, memory, call_stack, pc, running, cout, cerr, loads,
                   dispatched, lastStored>>

\* the loop condition stopping one instruction short
LoopCondition_StopsShort ==
    running /\ pc + 1 < Len(program)

\* the loop condition without its test of running
LoopCondition_IgnoresRunning ==
    pc < Len(program)

\* the condition of run's while loop
LoopCondition ==
    running /\ pc < Len(program)

\* run's loop without its pc++
Increment_Missing(counter) ==
    counter

\* pc++
Increment(counter) ==
    counter + 1

\* lastStored after instr, dispatched on a stack with top value top, had result r
Record(instr, top, r) ==
    IF instr.opcode = "STORE" /\ r.diag = <<>>
    THEN [a \in (DOMAIN lastStored) \cup {r.operand} |->
            IF a = r.operand THEN top ELSE lastStored[a]]
    ELSE lastStored

\* an iteration that does not advance pc when the instruction raised an error
run_step_StaysOnError ==
    /\ mode = "run"
    /\ LoopCondition
    /\ \E r \in execute(program[pc + 1], stack, memory, running, pc) :
          IF r.trap
          THEN /\ mode' = "crashed"
               /\ UNCHANGED <<program, stack, memory, call_stack, pc, running, cout, cerr,
                              loads, dispatched, lastStored, runs>>
          ELSE /\ stack' = r.stack
               /\ memory' = r.memory
               /\ cout' = cout \o r.printed
               /\ cerr' = cerr \o r.diag
               /\ running' = r.running
               /\ pc' = IF r.diag # <<>> THEN pc ELSE Increment(pc)
               /\ dispatched' = dispatched + 1
               /\ lastStored' = Record(program[pc + 1], Stack_peek(stack).value, r)
               /\ UNCHANGED <<program, call_stack, mode, loads, runs>>

\* one iteration of run's loop: execute(program[pc]); pc++
run_step ==
    /\ mode = "run"
    /\ LoopCondition
    /\ \E r \in execute(program[pc + 1], stack, memory, running, pc) :
          IF r.trap
          THEN /\ mode' = "crashed"
               /\ UNCHANGED <<program, stack, memory, call_stack, pc, running, cout, cerr,
                              loads, dispatched, lastStored, runs>>
          ELSE /\ stack' = r.stack
               /\ memory' = r.memory
               /\ cout' = cout \o r.printed
               /\ cerr' = cerr \o r.diag
               /\ running' = r.running
               /\ pc' = Increment(pc)
               /\ dispatched' = dispatched + 1
               /\ lastStored' = Record(program[pc + 1], Stack_peek(stack).value, r)
               /\ UNCHANGED <<program, call_stack, mode, loads, runs>>

\* run's loop ends and run returns
run_return ==
    /\ mode = "run"
    /\ ~LoopCondition
    /\ mode' = "idle"
    /\ UNCHANGED <<program, stack, memory, call_stack, pc, running, cout, cerr, loads,
                   dispatched, lastStored, runs>>

Next ==
    \/ \E bytecode \in Programs : load_program(bytecode)
    \/ run_call
    \/ run_step
    \/ run_return

\* The engine given programs of well-formed instructions.
Spec ==
    Init /\ [][Next]_vars

NextAny ==
    \/ \E bytecode \in AnyPrograms : load_program(bytecode)
    \/ run_call
    \/ run_step
    \/ run_return

\* The engine given any program, malformed instructions included.
SpecAny ==
    Init /\ [][NextAny]_vars

NextCap ==
    \/ \E bytecode \in CapPrograms : load_program(bytecode)
    \/ run_call
    \/ run_step
    \/ run_return

\* The engine driven to the capacity of its stack.
SpecCap ==
    Init /\ [][NextCap]_vars

\* run() is a synchronous loop on the calling thread: once entered, each
\* iteration and the return are taken.
FairSpec ==
    SpecAny /\ WF_vars(run_step) /\ WF_vars(run_return)

\* ------------------------------------------------------------------------
\* Properties
\* ------------------------------------------------------------------------

\* run() is about to dispatch an instruction of opcode op
Dispatching(op) ==
    mode = "run" /\ LoopCondition /\ program[pc + 1].opcode = op

\* the instruction run() is about to dispatch
Current ==
    program[pc + 1]

\* the step reports the error what at the current pc and clears running
Raises(what) ==
    /\ cerr' = Append(cerr, [pc |-> pc, what |-> what])
    /\ running' = FALSE
    /\ mode' = "run"

\* the last diagnostic written
LastError ==
    IF cerr = <<>> THEN NoError ELSE cerr[Len(cerr)].what

\* C1: run() never fails: whatever the program and the starting stack and
\* memory, every error of a dispatch is caught and run() returns; the
\* process never dies inside run().
RunNeverFails ==
    mode # "crashed"

\* C2: run() always terminates: a run() that was entered leaves its loop,
\* and at no point has it dispatched more instructions than the program
\* loaded holds.
RunTerminates ==
    /\ [](dispatched <= Len(program))
    /\ (mode = "run") ~> (mode # "run")

\* a run() has returned after dispatching every instruction of main's program
RunTerminatesWitness ==
    mode = "idle" /\ program = MainProgram /\ dispatched = Len(program)

\* C3: in every reachable state the operand stack holds between 0 and
\* MAX_SIZE (1024) values.
StackWithinCapacity ==
    Stack_size(stack) \in 0..MAX_SIZE

\* the stack is at its capacity and a push on it has been refused
StackWithinCapacityWitness ==
    Stack_size(stack) = MAX_SIZE /\ LastError = "Stack Overflow"

\* the first program of a fresh engine is FillProgram: its run starts from
\* an empty stack
FillFromEmpty ==
    program = FillProgram /\ loads = 1

\* C4: PUSH dispatched on a stack of MAX_SIZE values raises Stack Overflow,
\* leaves the stack as it was and clears running; and MAX_SIZE + 1 pushes
\* run from an empty stack fail on the last push, not before.
PushAtCapacityOverflows ==
    /\ [][(Dispatching("PUSH") /\ WellFormed(Current) /\ Stack_size(stack) = MAX_SIZE)
            => (Raises("Stack Overflow") /\ stack' = stack)]_vars
    /\ [](FillFromEmpty =>
            /\ pc <= MAX_SIZE => (cerr = <<>> /\ running /\ Stack_size(stack) = pc)
            /\ pc = MAX_SIZE + 1 =>
                 /\ cerr = <<[pc |-> MAX_SIZE, what |-> "Stack Overflow"]>>
                 /\ ~running
                 /\ stack = [i \in 1..MAX_SIZE |-> i])

\* the run of FillProgram from an empty stack has ended on its last push
PushAtCapacityOverflowsWitness ==
    FillFromEmpty /\ mode = "idle" /\ pc = MAX_SIZE + 1 /\ LastError = "Stack Overflow"

\* run() is about to dispatch an instruction, with its operand if its
\* opcode takes one
DispatchingAny ==
    mode = "run" /\ LoopCondition /\ WellFormed(Current)

\* C5 as claimed: POP, PRINT, STORE and DUP on an empty stack, and ADD, SUB,
\* MUL, DIV, MOD, CMP and SWAP on a stack of fewer than two values whatever
\* they are, raise Stack Underflow and clear running.
UnderflowOnShortStack ==
    [][(/\ DispatchingAny
        /\ \/ Current.opcode \in {"POP", "PRINT", "STORE", "DUP"} /\ Stack_size(stack) = 0
           \/ /\ Current.opcode \in {"ADD", "SUB", "MUL", "DIV", "MOD", "CMP", "SWAP"}
              /\ Stack_size(stack) < 2)
          => Raises("Stack Underflow")]_vars

\* C5 as amended: as claimed, except that DIV and MOD on a stack holding
\* the single value 0 raise Division by zero and Modulo by zero; on an empty
\* stack and on a single non-zero value they raise Stack Underflow.  Running
\* is cleared in every case.
UnderflowUnlessZeroDivisor ==
    [][(/\ DispatchingAny
        /\ \/ Current.opcode \in {"POP", "PRINT", "STORE", "DUP"} /\ Stack_size(stack) = 0
           \/ /\ Current.opcode \in {"ADD", "SUB", "MUL", "DIV", "MOD", "CMP", "SWAP"}
              /\ Stack_size(stack) < 2)
          => IF Current.opcode = "DIV" /\ stack = <<0>> THEN Raises("Division by zero")
             ELSE IF Current.opcode = "MOD" /\ stack = <<0>> THEN Raises("Modulo by zero")
             ELSE Raises("Stack Underflow")]_vars

\* DIV has just been dispatched on a stack holding the single value 0
UnderflowUnlessZeroDivisorWitness ==
    /\ mode = "run"
    /\ pc > 0
    /\ program[pc].opcode = "DIV"
    /\ cerr # <<>>
    /\ cerr[Len(cerr)] = [pc |-> pc - 1, what |-> "Division by zero"]
    /\ stack = <<>>
    /\ ~running

\* run() is about to dispatch DIV or MOD on a stack whose top is 0 and that
\* holds a dividend below it
DividingByZero ==
    /\ mode = "run"
    /\ LoopCondition
    /\ Current.opcode \in {"DIV", "MOD"}
    /\ Stack_size(stack) >= 2
    /\ Stack_peek(stack).value = 0

ZeroMessage ==
    IF Current.opcode = "DIV" THEN "Division by zero" ELSE "Modulo by zero"

\* C6 as claimed: DIV (MOD) on a zero divisor raises Division (Modulo) by
\* zero, clears running, and leaves neither the divisor nor the dividend on
\* the stack.
DivByZeroLosesDividend ==
    [][DividingByZero
          => /\ Raises(ZeroMessage)
             /\ stack' = SubSeq(stack, 1, Len(stack) - 2)]_vars

\* C6 as amended: DIV (MOD) on a zero divisor raises Division (Modulo) by
\* zero and clears running, and only the divisor has been popped: the
\* dividend is still on top of the stack.
DivByZeroKeepsDividend ==
    [][DividingByZero
          => /\ Raises(ZeroMessage)
             /\ stack' = SubSeq(stack, 1, Len(stack) - 1)]_vars

\* PUSH 7; PUSH 0; DIV has run on an empty stack: the 7 is still there
DivByZeroKeepsDividendWitness ==
    /\ program = DivByZeroProgram
    /\ pc = 3
    /\ stack = <<7>>
    /\ LastError = "Division by zero"
    /\ ~running

\* what LOAD k is to push: the value of the latest STORE k that raised no
\* error, 0 if there was none
Expected(k) ==
    IF k \in DOMAIN lastStored THEN lastStored[k] ELSE 0

\* C7: load_program, in whatever state the engine is, installs the program
\* given, sets pc to 0 and running to true and leaves the call stack empty,
\* and changes neither the operand stack nor any memory cell; so the first
\* LOAD of a program pushes what an earlier program stored at its address.
LoadKeepsStackAndMemory ==
    /\ [][loads' # loads
            => /\ program' \in Programs
               /\ pc' = 0
               /\ running' = TRUE
               /\ call_stack' = <<>>
               /\ stack' = stack
               /\ memory' = memory]_vars
    /\ [][(/\ Dispatching("LOAD")
           /\ dispatched = 0
           /\ Current.operands[1] \in DOMAIN lastStored
           /\ Stack_size(stack) < MAX_SIZE)
            => stack' = Append(stack, lastStored[Current.operands[1]])]_vars

\* the second program loaded has pushed, by LOAD 0, the 7 that the first
\* stored at address 0
LoadKeepsStackAndMemoryWitness ==
    /\ loads = 2
    /\ program = <<Instruction("LOAD", <<0>>)>>
    /\ dispatched = 1
    /\ 0 \in DOMAIN lastStored
    /\ lastStored[0] = 7
    /\ stack # <<>>
    /\ stack[Len(stack)] = 7

\* C8: when run() returns, either pc is below the length of the program and
\* running is false, or pc equals that length; pc never exceeds it.
PcWithinProgram ==
    /\ [](pc <= Len(program))
    /\ [][(mode = "run" /\ mode' = "idle")
            => \/ pc' < Len(program') /\ running' = FALSE
               \/ pc' = Len(program')]_vars

\* run() has returned before the end of the program, on a HALT or an error
PcWithinProgramWitness ==
    mode = "idle" /\ dispatched > 0 /\ pc < Len(program) /\ ~running

\* the addresses within [0, MAX_ADDRESS] that a program names or that have
\* been written
ProbedAddresses ==
    {k \in (DOMAIN memory) \cup (DOMAIN lastStored) \cup Addresses \cup {1, 42} :
        0 <= k /\ k <= MAX_ADDRESS}

\* C9: for an address k within bounds, LOAD k pushes 0 without error if no
\* STORE k has succeeded, and otherwise the value of the latest STORE k
\* that succeeded (the stack having room for it); a STORE to another address
\* changes nothing of it.
LoadReadsLatestStore ==
    /\ [](\A k \in ProbedAddresses :
            Memory_load(memory, k) = [what |-> NoError, value |-> Expected(k)])
    /\ [][(/\ Dispatching("LOAD")
           /\ WellFormed(Current)
           /\ Current.operands[1] \in 0..MAX_ADDRESS
           /\ Stack_size(stack) < MAX_SIZE)
            => /\ stack' = Append(stack, Expected(Current.operands[1]))
               /\ cerr' = cerr
               /\ running' = TRUE]_vars
    /\ [][(Dispatching("STORE") /\ WellFormed(Current))
            => \A k \in ProbedAddresses \ {Current.operands[1]} :
                  Memory_load(memory', k) = Memory_load(memory, k)]_vars

\* after a store of 7 to address 0 and a later store of -1 to address
\* MAX_ADDRESS, LOAD 0 has pushed 7
LoadReadsLatestStoreWitness ==
    /\ program = TwoStoresProgram
    /\ dispatched = 5
    /\ DOMAIN lastStored = {0, MAX_ADDRESS}
    /\ stack # <<>>
    /\ stack[Len(stack)] = 7
    /\ cerr = <<>>

\* C10: LOAD, and STORE on a non-empty stack, with an address below 0 or
\* above MAX_ADDRESS raise Memory address out of bounds and clear running,
\* and change no memory cell; every key of the memory is within
\* [0, MAX_ADDRESS].
AddressOutOfBoundsRefused ==
    /\ [](\A k \in DOMAIN memory : 0 <= k /\ k <= MAX_ADDRESS)
    /\ [][(/\ DispatchingAny
           /\ \/ Current.opcode = "LOAD"
              \/ Current.opcode = "STORE" /\ Stack_size(stack) > 0
           /\ Current.operands[1] \notin 0..MAX_ADDRESS)
            => /\ Raises("Memory address out of bounds")
               /\ memory' = memory]_vars

\* a STORE out of bounds has been refused on a memory that holds cells
AddressOutOfBoundsRefusedWitness ==
    /\ mode = "run"
    /\ pc > 0
    /\ program[pc].opcode = "STORE"
    /\ LastError = "Memory address out of bounds"
    /\ memory # EmptyMemory
    /\ memory = lastStored

\* the stack without its top two values
BelowPair ==
    SubSeq(stack, 1, Len(stack) - 2)

\* the value pushed first of the top two (the left operand)
Left ==
    stack[Len(stack) - 1]

\* the value pushed second of the top two (the right operand)
Right ==
    stack[Len(stack)]

\* the step raises no error and leaves run() in its loop, running
Succeeds ==
    cerr' = cerr /\ running' = TRUE /\ mode' = "run"

\* C11: with a pushed first and b pushed second, CMP removes both and pushes
\* one value, -1 if a < b, 1 if a > b and 0 if a = b; the rest of the stack
\* is unchanged and the size is one less; no error is raised.
CmpOrdersOperands ==
    [][(Dispatching("CMP") /\ Stack_size(stack) >= 2)
          => /\ Succeeds
             /\ Left < Right => stack' = Append(BelowPair, -1)
             /\ Left > Right => stack' = Append(BelowPair, 1)
             /\ Left = Right => stack' = Append(BelowPair, 0)
             /\ Stack_size(stack') = Stack_size(stack) - 1]_vars

\* on a fresh engine CMP has been dispatched on 3 pushed first and 5 pushed
\* second, and has left -1 alone on the stack
CmpOrdersOperandsWitness ==
    /\ loads = 1
    /\ program = CmpProgram
    /\ dispatched = 3
    /\ stack = <<-1>>
    /\ cerr = <<>>
    /\ running

\* main's program is the first program of a fresh engine
MainOnFreshEngine ==
    program = MainProgram /\ loads = 1

ControlTransferOps ==
    {"JMP", "JZ", "JNZ", "CALL", "RET"}

\* C13: dispatching JMP, JZ, JNZ, CALL or RET at index i, whatever the stack
\* and the memory, raises Unknown instruction with i as the pc reported and
\* clears running, does not branch (pc becomes i + 1), and changes neither
\* the operand stack, nor the memory, nor the call stack.
ControlTransferIsUnknown ==
    [][(mode = "run" /\ LoopCondition /\ Current.opcode \in ControlTransferOps)
          => /\ Raises("Unknown instruction")
             /\ pc' = pc + 1
             /\ stack' = stack
             /\ memory' = memory
             /\ call_stack' = call_stack
             /\ cout' = cout]_vars

\* the JMP at index 1 of a program loaded on a stack and a memory that hold
\* values has been refused, and the stack holds what it held and the 7
\* pushed before the JMP
ControlTransferIsUnknownWitness ==
    /\ program = JumpProgram
    /\ pc = 2
    /\ cerr # <<>>
    /\ cerr[Len(cerr)] = [pc |-> 1, what |-> "Unknown instruction"]
    /\ running = FALSE
    /\ Stack_size(stack) = 2
    /\ Stack_peek(stack).value = 7
    /\ memory # EmptyMemory

\* the stack a completed run of FillProgram leaves on a fresh engine
FullStack ==
    [i \in 1..MAX_SIZE |-> i]

\* FullStack with its top two values exchanged
FullStackSwapped ==
    [i \in 1..MAX_SIZE |->
        IF i = MAX_SIZE THEN MAX_SIZE - 1 ELSE IF i = MAX_SIZE - 1 THEN MAX_SIZE ELSE i]

\* SwapsProgram was loaded after FillProgram had run on a fresh engine
SwapsOnFullStack ==
    /\ program = SwapsProgram
    /\ loads = 2
    /\ cerr # <<>>
    /\ cerr[1] = [pc |-> MAX_SIZE, what |-> "Stack Overflow"]

\* C14: SWAP on a stack of two values or more exchanges the top two and
\* leaves the others and the size as they are, also on a stack of MAX_SIZE
\* values, where two SWAPs in a row restore the stack; DUP on a non-empty
\* stack of fewer than MAX_SIZE values pushes a copy of the top, and DUP on
\* a stack of MAX_SIZE values raises Stack Overflow and leaves the stack as
\* it was.
SwapAndDupAtCapacity ==
    /\ [][(Dispatching("SWAP") /\ Stack_size(stack) >= 2)
            => /\ Succeeds
               /\ stack' = Append(Append(BelowPair, Right), Left)
               /\ Stack_size(stack') = Stack_size(stack)]_vars
    /\ [](SwapsOnFullStack =>
            /\ Len(cerr) = 1
            /\ pc = 0 => stack = FullStack
            /\ pc = 1 => stack = FullStackSwapped
            /\ pc = 2 => stack = FullStack)
    /\ []((program = SwapTwiceProgram /\ loads = 1 /\ pc = 4) => stack = <<0, 7>>)
    /\ [][(Dispatching("DUP") /\ Stack_size(stack) > 0 /\ Stack_size(stack) < MAX_SIZE)
            => /\ Succeeds
               /\ stack' = Append(stack, Right)]_vars
    /\ [][(Dispatching("DUP") /\ Stack_size(stack) = MAX_SIZE)
            => /\ Raises("Stack Overflow")
               /\ stack' = stack]_vars

\* two SWAPs have run on a stack of MAX_SIZE values without error, and
\* run() has returned
SwapAndDupAtCapacityWitness ==
    /\ SwapsOnFullStack
    /\ pc = 2
    /\ stack = FullStack
    /\ mode = "idle"

\* C15: every dispatch that run() survives, whether the instruction
\* succeeded, was HALT or raised an error, is followed by pc growing by
\* exactly one; so pc is the number of instructions dispatched since the
\* last load_program, and once running is cleared by the HALT or the error
\* at index i, pc is i + 1.
PcCountsDispatches ==
    /\ [][(mode = "run" /\ LoopCondition /\ mode' = "run")
            => (pc' = pc + 1 /\ dispatched' = dispatched + 1)]_vars
    /\ [][pc' # pc => (pc' = pc + 1 \/ (loads' # loads /\ pc' = 0))]_vars
    /\ [](pc = dispatched)
    /\ [](running = FALSE =>
            /\ pc > 0
            /\ \/ program[pc].opcode = "HALT"
               \/ cerr # <<>> /\ cerr[Len(cerr)].pc = pc - 1)

\* run() has returned after the error raised by the instruction at index 0
\* of a program of two instructions: pc is 1
PcCountsDispatchesWitness ==
    /\ mode = "idle"
    /\ program = ErrorEarlyProgram
    /\ running = FALSE
    /\ pc = 1
    /\ dispatched = 1
    /\ cerr # <<>>
    /\ cerr[Len(cerr)] = [pc |-> 0, what |-> "Stack Underflow"]

\* C16: ADD, SUB, MUL or CMP dispatched on a stack of exactly one value, and
\* DIV or MOD dispatched on a stack of exactly one non-zero value, pop that
\* value before they raise Stack Underflow: running is cleared, the operand
\* stack is left empty (the value is not put back) and the memory is
\* unchanged.
UnderflowKeepsFirstPop ==
    [][(/\ mode = "run"
        /\ LoopCondition
        /\ Stack_size(stack) = 1
        /\ \/ Current.opcode \in {"ADD", "SUB", "MUL", "CMP"}
           \/ Current.opcode \in {"DIV", "MOD"} /\ stack[1] # 0)
          => /\ Raises("Stack Underflow")
             /\ stack' = <<>>
             /\ memory' = memory
             /\ cout' = cout]_vars

\* on a fresh engine PUSH 7; ADD has run: the ADD raised Stack Underflow
\* and the 7 is gone
UnderflowKeepsFirstPopWitness ==
    /\ program = OneOperandProgram
    /\ loads = 1
    /\ pc = 2
    /\ stack = <<>>
    /\ cerr = <<[pc |-> 1, what |-> "Stack Underflow"]>>
    /\ running = FALSE
    /\ memory = EmptyMemory

\* run() is about to dispatch op on a stack of two values or more
DispatchingBinary(op) ==
    Dispatching(op) /\ Stack_size(stack) >= 2

\* the step raises no error and replaces the top two values by v
ReplacesPairBy(v) ==
    Succeeds /\ stack' = Append(BelowPair, v)

\* C17: with a pushed first and b pushed second, the binary arithmetic
\* opcodes take a as the left operand and b as the right: wherever the
\* result is an int, ADD replaces the pair by a + b, SUB by a - b, MUL by
\* a * b, DIV (b # 0) by a / b and MOD (b # 0) by a % b, the rest of the
\* stack unchanged and the size one less.
ArithmeticOperandOrder ==
    /\ [][(DispatchingBinary("ADD") /\ ~AddOverflows(Left, Right))
            => ReplacesPairBy(Left + Right)]_vars
    /\ [][(DispatchingBinary("SUB") /\ ~SubOverflows(Left, Right))
            => ReplacesPairBy(Left - Right)]_vars
    /\ [][(DispatchingBinary("MUL") /\ ~MulOverflows(Left, Right))
            => ReplacesPairBy(Left * Right)]_vars
    /\ [][(DispatchingBinary("DIV") /\ Right # 0 /\ ~(Left = INT_MIN /\ Right = -1))
            => ReplacesPairBy(TruncDiv(Left, Right))]_vars
    /\ [][(DispatchingBinary("MOD") /\ Right # 0 /\ ~(Left = INT_MIN /\ Right = -1))
            => ReplacesPairBy(TruncRem(Left, Right))]_vars

\* SUB has been dispatched on 7 pushed first and -1 pushed second, and has
\* left 8
ArithmeticOperandOrderWitness ==
    /\ loads = 2
    /\ program = <<Instruction("SUB", <<>>)>>
    /\ dispatched = 1
    /\ stack = <<8>>
    /\ cerr = <<>>
    /\ running

\* q is the quotient of a by b truncated toward zero (b # 0); the quotient
\* of INT_MIN by -1 is INT_MAX + 1, which no int is
IsQuotient(q, a, b) ==
    IF a = INT_MIN /\ b = -1 THEN FALSE ELSE q = TruncDiv(a, b)

\* r is the remainder of a by b whose sign follows a (b # 0)
IsRemainder(r, a, b) ==
    IF a = INT_MIN /\ b = -1 THEN r = 0 ELSE r = TruncRem(a, b)

\* C18: the only arithmetic failure of DIV and MOD is a zero divisor: for
\* every dividend a and every divisor b # 0, INT_MIN and -1 included, DIV
\* pushes the quotient truncated toward zero and MOD the remainder whose
\* sign follows the dividend, both ints, with no error, running left true
\* and run() still in its loop.
DivModFailOnlyOnZero ==
    /\ [][(DispatchingBinary("DIV") /\ Right # 0)
            => /\ Succeeds
               /\ Stack_size(stack') = Stack_size(stack) - 1
               /\ Stack_peek(stack').value \in INT_MIN..INT_MAX
               /\ IsQuotient(Stack_peek(stack').value, Left, Right)]_vars
    /\ [][(DispatchingBinary("MOD") /\ Right # 0)
            => /\ Succeeds
               /\ Stack_size(stack') = Stack_size(stack) - 1
               /\ Stack_peek(stack').value \in INT_MIN..INT_MAX
               /\ IsRemainder(Stack_peek(stack').value, Left, Right)]_vars

\* what a run() may change of the engine and of its output
RunEffects ==
    <<stack, memory, pc, running, cout, cerr, dispatched>>

\* C19: once running is cleared by HALT or by an error, or once pc has
\* reached the length of the program with running still true, nothing is
\* dispatched and the stack, the memory, pc, running and the output stay as
\* they are until the next load_program, however often run() is called: a
\* second run() after the same load leaves what the first left.
RunIsIdempotent ==
    /\ [][((running = FALSE \/ pc >= Len(program)) /\ loads' = loads)
            => UNCHANGED RunEffects]_vars
    /\ [][(runs >= 1 /\ mode = "idle" /\ loads' = loads)
            => (mode' = "run" /\ UNCHANGED RunEffects)]_vars
    /\ [][(runs >= 2 /\ mode = "run")
            => (mode' = "idle" /\ UNCHANGED RunEffects)]_vars

\* a second run() has returned after the first stopped on the HALT at index
\* 1 of a program of three instructions: the PUSH after the HALT has not
\* been dispatched
RunIsIdempotentWitness ==
    /\ program = HaltEarlyProgram
    /\ runs = 2
    /\ mode = "idle"
    /\ running = FALSE
    /\ pc = 2
    /\ dispatched = 2

\* run() is about to dispatch op with an address below 0 or above
\* MAX_ADDRESS
DispatchingOutOfBounds(op) ==
    Dispatching(op) /\ WellFormed(Current) /\ Current.operands[1] \notin 0..MAX_ADDRESS

\* C20: STORE pops its value before the address is validated: with an
\* address out of bounds, STORE on a non-empty stack removes the top value
\* and then raises Memory address out of bounds, the memory unchanged, and
\* STORE on an empty stack raises Stack Underflow, not Memory address out of
\* bounds; LOAD with an address out of bounds leaves the stack unchanged.
StorePopsBeforeValidation ==
    /\ [][(DispatchingOutOfBounds("STORE") /\ Stack_size(stack) > 0)
            => /\ Raises("Memory address out of bounds")
               /\ stack' = SubSeq(stack, 1, Len(stack) - 1)
               /\ memory' = memory]_vars
    /\ [][(DispatchingOutOfBounds("STORE") /\ Stack_size(stack) = 0)
            => /\ Raises("Stack Underflow")
               /\ stack' = stack
               /\ memory' = memory]_vars
    /\ [][DispatchingOutOfBounds("LOAD")
            => /\ Raises("Memory address out of bounds")
               /\ stack' = stack
               /\ memory' = memory]_vars

\* STORE MAX_ADDRESS + 1 has been refused on a stack that held one value and
\* an empty memory: the value is gone and the memory is still empty
StorePopsBeforeValidationWitness ==
    /\ loads = 2
    /\ program = <<Instruction("STORE", <<MAX_ADDRESS + 1>>)>>
    /\ dispatched = 1
    /\ cerr = <<[pc |-> 0, what |-> "Memory address out of bounds"]>>
    /\ stack = <<>>
    /\ memory = EmptyMemory
    /\ running = FALSE

====
